---------------------------- MODULE Spec2Model ----------------------------
(***************************************************************************)
(* Model of fairseq/modules/reducer.py: the Reducer module (max, attn and  *)
(* softmax pooling over the source or the target axis of a T x S x B x C   *)
(* representation) and its incremental-state buffer.                       *)
(*                                                                         *)
(* A tensor is a record [shape, data]: shape is the tuple of axis sizes,   *)
(* data maps every index tuple (1-based) to an element.  The torch         *)
(* operators take the source's 0-based dim arguments.                      *)
(*                                                                         *)
(* Elements of the max strategy are integers, with NegInf for              *)
(* float('-inf').  Elements produced by softmax pooling are exact reals:   *)
(* quotients num/den of Laurent polynomials in E = exp(1) with integer     *)
(* coefficients.  E is transcendental, so two such quotients denote the    *)
(* same real exactly when they are equal as rational functions (RealEq).   *)
(***************************************************************************)
EXTENDS Integers, Sequences, FiniteSets, TLC

VARIABLES
    incremental_state,  \* the session's incremental-state container (a dict)
    last,               \* the last completed call: its arguments and result
    hist,               \* history: per instance and batch row, the inputs of
                        \*   the hypothesis now at that row, oldest first
    calls,              \* history: per instance, the time slices passed to
                        \*   _prepare_repr since the session began
    eq                  \* the training/decoding comparison: input and outputs

vars == <<incremental_state, last, hist, calls, eq>>

----------------------------------------------------------------------------
(* Bounds *)

\* time positions buffered in a session of one instance's calls or of calls only
MaxLen == 3

\* time positions buffered in the shared session, over all instances
MaxShared == 2

\* length of the sequence of the training/decoding comparison
MaxT == 3

\* elements of the inputs of the comparison and of single calls are 0..MaxVal
MaxVal == 1

Val == 0..MaxVal

\* float('-inf'): below every finite element of the model
NegInf == -1000

----------------------------------------------------------------------------
(* Tensors *)

RECURSIVE Indices(_)
Indices(shape) ==
    IF shape = <<>> THEN {<<>>}
    ELSE {<<k>> \o r : k \in 1..Head(shape), r \in Indices(Tail(shape))}

\* all tensors of a shape with elements of a set
Tensors(shape, elems) ==
    {[shape |-> shape, data |-> d] : d \in [Indices(shape) -> elems]}

RemoveAt(s, d) == SubSeq(s, 1, d - 1) \o SubSeq(s, d + 1, Len(s))

InsertAt(s, d, k) == SubSeq(s, 1, d - 1) \o <<k>> \o SubSeq(s, d, Len(s))

\* x.dim()
Rank(x) == Len(x.shape)

\* x.size(dim)
Size(x, dim) == x.shape[dim + 1]

\* torch.cat((a, b), dim)
TorchCat(a, b, dim) ==
    LET d  == dim + 1
        sh == [a.shape EXCEPT ![d] = @ + b.shape[d]]
    IN  [shape |-> sh,
         data  |-> [idx \in Indices(sh) |->
                      IF idx[d] <= a.shape[d] THEN a.data[idx]
                      ELSE b.data[[idx EXCEPT ![d] = @ - a.shape[d]]]]]

\* x.index_select(dim, index); index holds 1-based positions
IndexSelect(x, dim, index) ==
    LET d  == dim + 1
        sh == [x.shape EXCEPT ![d] = Len(index)]
    IN  [shape |-> sh,
         data  |-> [idx \in Indices(sh) |-> x.data[[idx EXCEPT ![d] = index[@]]]]]

\* x[i, :, :, :]
Select(x, i) ==
    [shape |-> Tail(x.shape),
     data  |-> [idx \in Indices(Tail(x.shape)) |-> x.data[<<i + 1>> \o idx]]]

\* x[:n, :, :, :]
SliceTo(x, n) ==
    LET sh == [x.shape EXCEPT ![1] = IF n < @ THEN n ELSE @]
    IN  [shape |-> sh, data |-> [idx \in Indices(sh) |-> x.data[idx]]]

\* x.unsqueeze(dim); dim = -1 is the place after the last axis
Unsqueeze(x, dim) ==
    LET d  == IF dim = -1 THEN Rank(x) + 1 ELSE dim + 1
        sh == InsertAt(x.shape, d, 1)
    IN  [shape |-> sh, data |-> [idx \in Indices(sh) |-> x.data[RemoveAt(idx, d)]]]

\* m.transpose(0, 1) of a matrix
Transpose01(m) ==
    LET sh == <<m.shape[2], m.shape[1]>>
    IN  [shape |-> sh, data |-> [idx \in Indices(sh) |-> m.data[<<idx[2], idx[1]>>]]]

\* x.masked_fill(mask, value); mask broadcasts over its axes of size 1
MaskedFill(x, mask, value) ==
    [shape |-> x.shape,
     data  |-> [idx \in Indices(x.shape) |->
                  IF mask.data[[k \in 1..Len(idx) |->
                                  IF mask.shape[k] = 1 THEN 1 ELSE idx[k]]]
                  THEN value ELSE x.data[idx]]]

SetMax(S) == CHOOSE m \in S : \A v \in S : v <= m

\* x.max(dim)[0]
TorchMaxDim(x, dim) ==
    LET d  == dim + 1
        sh == RemoveAt(x.shape, d)
    IN  [shape |-> sh,
         data  |-> [idx \in Indices(sh) |->
                      SetMax({x.data[InsertAt(idx, d, k)] : k \in 1..x.shape[d]})]]

\* torch.max(a, b), elementwise
TorchMaximum(a, b) ==
    [shape |-> a.shape,
     data  |-> [idx \in Indices(a.shape) |->
                  IF a.data[idx] >= b.data[idx] THEN a.data[idx] ELSE b.data[idx]]]

----------------------------------------------------------------------------
(* Exact reals num/den, num and den Laurent polynomials in E = exp(1): a   *)
(* polynomial maps each exponent with a non-zero coefficient to it.  A     *)
(* zero denominator is NaN (0/0, what softmax yields when every logit is   *)
(* -inf).                                                                  *)

ZeroPoly == <<>>

Mono(k, e) == IF k = 0 THEN ZeroPoly ELSE [x \in {e} |-> k]

Coef(p, e) == IF e \in DOMAIN p THEN p[e] ELSE 0

PolyAdd(p, q) ==
    LET D == DOMAIN p \cup DOMAIN q
    IN  [e \in {e \in D : Coef(p, e) + Coef(q, e) # 0} |-> Coef(p, e) + Coef(q, e)]

PolyScale(p, k) == IF k = 0 THEN ZeroPoly ELSE [e \in DOMAIN p |-> k * p[e]]

RECURSIVE ConvAt(_, _, _, _)
ConvAt(p, q, e, S) ==
    IF S = {} THEN 0
    ELSE LET i == CHOOSE i \in S : TRUE
         IN  p[i] * Coef(q, e - i) + ConvAt(p, q, e, S \ {i})

PolyMul(p, q) ==
    LET D == {i + j : i \in DOMAIN p, j \in DOMAIN q}
    IN  [e \in {e \in D : ConvAt(p, q, e, DOMAIN p) # 0} |-> ConvAt(p, q, e, DOMAIN p)]

\* the real of a finite float
AsReal(v) == [num |-> Mono(v, 0), den |-> Mono(1, 0)]

IsNaN(r) == r.den = ZeroPoly

RealAdd(a, b) ==
    [num |-> PolyAdd(PolyMul(a.num, b.den), PolyMul(b.num, a.den)),
     den |-> PolyMul(a.den, b.den)]

\* the product of a real and a finite float
RealTimes(a, v) == [num |-> PolyScale(a.num, v), den |-> a.den]

RealEq(a, b) ==
    /\ ~IsNaN(a)
    /\ ~IsNaN(b)
    /\ PolyMul(a.num, b.den) = PolyMul(b.num, a.den)

\* exp(v); exp(-inf) = 0
Exp(v) == IF v = NegInf THEN ZeroPoly ELSE Mono(1, v)

RECURSIVE ExpSum(_, _, _, _)
ExpSum(w, idx, d, k) ==
    IF k = 0 THEN ZeroPoly
    ELSE PolyAdd(ExpSum(w, idx, d, k - 1), Exp(w.data[[idx EXCEPT ![d] = k]]))

\* F.softmax(w, dim)
Softmax(w, dim) ==
    LET d == dim + 1
    IN  [shape |-> w.shape,
         data  |-> [idx \in Indices(w.shape) |->
                      [num |-> Exp(w.data[idx]),
                       den |-> ExpSum(w, idx, d, w.shape[d])]]]

\* prob * x, x of finite floats
Mul(prob, x) ==
    [shape |-> prob.shape,
     data  |-> [idx \in Indices(prob.shape) |-> RealTimes(prob.data[idx], x.data[idx])]]

RECURSIVE SumTo(_, _, _, _)
SumTo(t, idx, d, k) ==
    IF k = 1 THEN t.data[InsertAt(idx, d, 1)]
    ELSE RealAdd(SumTo(t, idx, d, k - 1), t.data[InsertAt(idx, d, k)])

\* torch.sum(t, dim)
TorchSum(t, dim) ==
    LET d  == dim + 1
        sh == RemoveAt(t.shape, d)
    IN  [shape |-> sh,
         data  |-> [idx \in Indices(sh) |-> SumTo(t, idx, d, t.shape[d])]]

\* torch.isnan(t).byte().any() != 0
AnyNaN(t) == \E idx \in Indices(t.shape) : IsNaN(t.data[idx])

\* a float tensor read as exact reals
ToReal(x) ==
    [shape |-> x.shape, data |-> [idx \in Indices(x.shape) |-> AsReal(x.data[idx])]]

RECURSIVE Dot(_, _, _, _)
Dot(x, idx, row, c) ==
    IF c = 0 THEN 0
    ELSE Dot(x, idx, row, c - 1) + x.data[[idx EXCEPT ![Len(idx)] = c]] * row[c]

\* F.linear(x, weight): the last axis of x times the transpose of weight
Linear(x, weight) ==
    LET sh == [x.shape EXCEPT ![Len(x.shape)] = Len(weight)]
    IN  [shape |-> sh,
         data  |-> [idx \in Indices(sh) |->
                      Dot(x, idx, weight[idx[Len(idx)]], x.shape[Len(x.shape)])]]

----------------------------------------------------------------------------
(* Python values *)

None == [None |-> TRUE]

\* {}
EmptyDict == <<>>

\* d[k] = v
Put(d, k, v) == [j \in DOMAIN d \cup {k} |-> IF j = k THEN v ELSE d[j]]

\* a target-branch mask (T x T): the code tests only that it is not None
TgtMask == [mask |-> "T x T"]

\* the result of a call: the exception raised ("" when it returns), the value
\* returned, and the incremental-state container as the call leaves it
Returns(v, st) == [raised |-> "", ret |-> v, incremental_state |-> st]

Raises(e, st) == [raised |-> e, ret |-> None, incremental_state |-> st]

----------------------------------------------------------------------------
(* fairseq.utils: the incremental-state container.  Its code is not part   *)
(* of the module's file; it is modelled from its contract: one entry per   *)
(* module instance and buffer name.                                        *)

FullKey(module, key) == "Reducer." \o ToString(module.id) \o "." \o key

get_incremental_state(module, state, key) ==
    IF state = None THEN None
    ELSE IF FullKey(module, key) \notin DOMAIN state THEN None
    ELSE state[FullKey(module, key)]

\* the container after the call
set_incremental_state(module, state, key, value) ==
    IF state # None THEN Put(state, FullKey(module, key), value) ELSE state

----------------------------------------------------------------------------
(* class Reducer *)

VALID_REDUCER == {"max", "attn", "softmax"}

\* Reducer(method, reduce_src, flags): weights is the attn strategy's
\* parameter (None for the other strategies)
Reducer(id, method, reduce_src, weights) ==
    [id |-> id, method |-> method, reduce_src |-> reduce_src, weights |-> weights]

_get_input_buffer(self, state) ==
    LET r == get_incremental_state(self, state, "repr_state")
    IN  IF r = None \/ r = EmptyDict THEN EmptyDict ELSE r

\* _set_input_buffer with one key for every instance, the first one's
_set_input_buffer_one_key(self, state, buffer) ==
    set_incremental_state([self EXCEPT !.id = 1], state, "repr_state", buffer)

\* the container after the call
_set_input_buffer(self, state, buffer) ==
    set_incremental_state(self, state, "repr_state", buffer)

\* _prepare_repr concatenating x before the buffer
_prepare_repr_reversed(self, x, state) ==
    IF state # None
    THEN LET saved_state == _get_input_buffer(self, state)
             x1 == IF "prev_repr" \in DOMAIN saved_state
                   THEN TorchCat(x, saved_state["prev_repr"], 0)
                   ELSE x
         IN  [ret |-> x1,
              incremental_state |->
                  _set_input_buffer(self, state, Put(saved_state, "prev_repr", x1))]
    ELSE [ret |-> x, incremental_state |-> state]

\* _prepare_repr storing x in place of the concatenation
_prepare_repr_overwrite(self, x, state) ==
    IF state # None
    THEN LET saved_state == _get_input_buffer(self, state)
         IN  [ret |-> x,
              incremental_state |->
                  _set_input_buffer(self, state, Put(saved_state, "prev_repr", x))]
    ELSE [ret |-> x, incremental_state |-> state]

\* [ret: the value returned, incremental_state: the container after the call]
_prepare_repr(self, x, state) ==
    IF state # None
    THEN LET saved_state == _get_input_buffer(self, state)
             x1 == IF "prev_repr" \in DOMAIN saved_state
                   THEN TorchCat(saved_state["prev_repr"], x, 0)
                   ELSE x
         IN  [ret |-> x1,
              incremental_state |->
                  _set_input_buffer(self, state, Put(saved_state, "prev_repr", x1))]
    ELSE [ret |-> x, incremental_state |-> state]

\* p's inverse
Inverse(p) == [j \in DOMAIN p |-> CHOOSE k \in DOMAIN p : p[k] = j]

\* reorder_incremental_state sending row j to new_order[j] (a scatter) in
\* place of fetching row new_order[j] into j
reorder_incremental_state_scatter(self, state, new_order) ==
    LET input_buffer == _get_input_buffer(self, state)
    IN  _set_input_buffer(self, state,
            [k \in DOMAIN input_buffer |->
                IndexSelect(input_buffer[k], 2, Inverse(new_order))])

\* the container after the call
reorder_incremental_state(self, state, new_order) ==
    LET input_buffer == _get_input_buffer(self, state)
    IN  IF input_buffer # None
        THEN _set_input_buffer(self, state,
                 [k \in DOMAIN input_buffer |->
                     IndexSelect(input_buffer[k], 2, new_order)])
        ELSE state

(* max *)

\* max_reduce_src with the mask not transposed
max_reduce_src_untransposed(self, x, mask, state) ==
    LET x1 == IF mask # None
              THEN MaskedFill(x, Unsqueeze(Unsqueeze(mask, 0), -1), NegInf)
              ELSE x
    IN  Returns(TorchMaxDim(x1, 1), state)

\* max_reduce_src reducing the time axis
max_reduce_src_dim0(self, x, mask, state) ==
    LET x1 == IF mask # None
              THEN MaskedFill(x, Unsqueeze(Unsqueeze(Transpose01(mask), 0), -1), NegInf)
              ELSE x
    IN  Returns(TorchMaxDim(x1, 0), state)

max_reduce_src(self, x, mask, state) ==
    LET x1 == IF mask # None
              THEN MaskedFill(x, Unsqueeze(Unsqueeze(Transpose01(mask), 0), -1), NegInf)
              ELSE x
    IN  Returns(TorchMaxDim(x1, 1), state)

\* max_training comparing x[i] with x[i - 1] in place of the running maximum
RECURSIVE max_training_pairwise(_, _, _)
max_training_pairwise(x, out, i) ==
    IF i >= Size(x, 0) THEN out
    ELSE max_training_pairwise(x,
             TorchCat(out, Unsqueeze(TorchMaximum(Select(x, i), Select(x, i - 1)), 0), 0),
             i + 1)

\* the loop of the training branch, from step i on
RECURSIVE max_training(_, _, _)
max_training(x, out, i) ==
    IF i >= Size(x, 0) THEN out
    ELSE max_training(x,
             TorchCat(out, Unsqueeze(TorchMaximum(Select(x, i), Select(out, i - 1)), 0), 0),
             i + 1)

max_reduce_tgt(self, x, mask, state) ==
    LET p == _prepare_repr(self, x, state)
    IN  IF mask = None
        THEN Returns(TorchMaxDim(p.ret, 0), p.incremental_state)
        ELSE Returns(max_training(p.ret, SliceTo(p.ret, 1), 1), p.incremental_state)

(* attn *)

attn_reduce_src(self, x, mask, state) ==
    LET weights == Linear(x, self.weights)
        masked  == IF mask # None
                   THEN MaskedFill(weights,
                            Unsqueeze(Unsqueeze(Transpose01(mask), 0), -1), NegInf)
                   ELSE weights
        prob    == Softmax(masked, 1)
    IN  IF AnyNaN(prob) THEN Raises("AssertionError", state)
        ELSE Returns(TorchSum(Mul(prob, x), 1), state)

\* attn_reduce_tgt implemented as the max strategy's decoding branch
attn_reduce_tgt_implemented(self, x, mask, state) ==
    LET p == _prepare_repr(self, x, state)
    IN  Returns(TorchMaxDim(p.ret, 0), p.incremental_state)

attn_reduce_tgt(self, x, mask, state) == Raises("NotImplementedError", state)

(* softmax *)

softmax_reduce_src(self, x, mask, state) ==
    LET weights == IF mask # None
                   THEN MaskedFill(x, Unsqueeze(Unsqueeze(Transpose01(mask), 0), -1), NegInf)
                   ELSE x
        prob    == Softmax(weights, 1)
        x1      == TorchSum(Mul(prob, x), 1)
    IN  IF AnyNaN(prob) THEN Raises("AssertionError", state)
        ELSE IF AnyNaN(x1) THEN Raises("AssertionError", state)
        ELSE Returns(x1, state)

\* softmax_training pooling x[:i] in place of x[:i + 1]
RECURSIVE softmax_training_short(_, _, _)
softmax_training_short(x, out, i) ==
    IF i >= Size(x, 0) THEN out
    ELSE softmax_training_short(x,
             TorchCat(out,
                 Unsqueeze(TorchSum(Mul(Softmax(SliceTo(x, i), 0), SliceTo(x, i)), 0), 0),
                 0),
             i + 1)

\* the loop of the training branch, from step i on
RECURSIVE softmax_training(_, _, _)
softmax_training(x, out, i) ==
    IF i >= Size(x, 0) THEN out
    ELSE softmax_training(x,
             TorchCat(out,
                 Unsqueeze(TorchSum(Mul(Softmax(SliceTo(x, i + 1), 0), SliceTo(x, i + 1)), 0), 0),
                 0),
             i + 1)

softmax_reduce_tgt(self, x, mask, state) ==
    LET p == _prepare_repr(self, x, state)
    IN  IF mask = None
        THEN LET prob == Softmax(p.ret, 0)
             IN  IF AnyNaN(prob) THEN Raises("AssertionError", p.incremental_state)
                 ELSE Returns(TorchSum(Mul(prob, p.ret), 0), p.incremental_state)
        ELSE Returns(softmax_training(p.ret, ToReal(SliceTo(p.ret, 1)), 1),
                     p.incremental_state)

\* self.customize_forward, as the strategy's factory returns it
customize_forward(self, x, mask, state) ==
    CASE self.method = "max"     /\ self.reduce_src  -> max_reduce_src(self, x, mask, state)
      [] self.method = "max"     /\ ~self.reduce_src -> max_reduce_tgt(self, x, mask, state)
      [] self.method = "attn"    /\ self.reduce_src  -> attn_reduce_src(self, x, mask, state)
      [] self.method = "attn"    /\ ~self.reduce_src -> attn_reduce_tgt(self, x, mask, state)
      [] self.method = "softmax" /\ self.reduce_src  -> softmax_reduce_src(self, x, mask, state)
      [] self.method = "softmax" /\ ~self.reduce_src -> softmax_reduce_tgt(self, x, mask, state)

forward(self, x, mask, state) == customize_forward(self, x, mask, state)

----------------------------------------------------------------------------
(* Decoding sessions: Reducer instances share one container; each is       *)
(* called with the session's container (decoding, mask = None, or with a   *)
(* mask) and reordered, in any interleaving.                               *)

\* the instances of a session: max, softmax and attn over the target axis
Reducers ==
    << Reducer(1, "max", FALSE, None),
       Reducer(2, "softmax", FALSE, None),
       Reducer(3, "attn", FALSE, <<<<1>>>>) >>

Inst == DOMAIN Reducers

\* S, B and C of the tensors of the shared session (Spec, SpecPrepare) and
\* of the beam session (SpecBeam).  The target branches act on every
\* (s, b, c) alone and only the reorder moves rows; B = 3 has permutations
\* that are not their own inverse.
Dims == [S |-> 1, B |-> 2, C |-> 1]

BeamDims == [S |-> 1, B |-> 3, C |-> 1]

\* the elements of a session's inputs
SessVal == {0, 1}

Inputs(dims, T) == Tensors(<<T, dims.S, dims.B, dims.C>>, SessVal)

\* new_order: the permutations of B batch rows
NewOrders(B) == {p \in [1..B -> 1..B] : \A a, b \in 1..B : p[a] = p[b] => a = b}

HasEntry(state, i) == FullKey(Reducers[i], "repr_state") \in DOMAIN state

Entry(state, i) == state[FullKey(Reducers[i], "repr_state")]

HasBuffer(state, i) == HasEntry(state, i) /\ "prev_repr" \in DOMAIN Entry(state, i)

Buffer(state, i) == Entry(state, i)["prev_repr"]

\* time positions buffered for instance i
Buffered(state, i) == IF HasBuffer(state, i) THEN Size(Buffer(state, i), 0) ELSE 0

RECURSIVE TotalBuffered(_, _)
TotalBuffered(state, n) ==
    IF n = 0 THEN 0 ELSE Buffered(state, n) + TotalBuffered(state, n - 1)

\* time positions a session may still buffer under the bound
Remaining(bound) == bound - TotalBuffered(incremental_state, Len(Reducers))

\* row b of time slice t of x, as a map from (s, c)
RowSlice(x, t, b) ==
    [sc \in Indices(<<x.shape[2], x.shape[4]>>) |-> x.data[<<t, sc[1], b, sc[2]>>]]

\* time slice t of x, as a map from (s, b, c)
TimeSlice(x, t) == [sbc \in Indices(Tail(x.shape)) |-> x.data[<<t>> \o sbc]]

\* a session begins: an empty container, B hypotheses without history
Begin(B) ==
    /\ incremental_state = EmptyDict
    /\ last = [op |-> "init"]
    /\ hist = [i \in Inst |-> [b \in 1..B |-> <<>>]]
    /\ calls = [i \in Inst |-> <<>>]
    /\ eq = [phase |-> "idle"]

Init == Begin(Dims.B)

\* instance i is called within the session: forward(x, mask, incremental_state)
Call(i, x, mask) ==
    LET self == Reducers[i]
        r    == forward(self, x, mask, incremental_state)
    IN  /\ self.method # "attn"
        /\ incremental_state' = r.incremental_state
        /\ last' = [op |-> "forward", inst |-> i, training |-> mask # None,
                    stateless |-> FALSE, raised |-> r.raised, ret |-> r.ret,
                    stored |-> /\ HasBuffer(r.incremental_state, i)
                               /\ _prepare_repr(self, x, incremental_state).ret
                                      = Buffer(r.incremental_state, i),
                    after_move |-> last.op = "reorder" /\ last.moved]
        /\ hist' = [hist EXCEPT ![i] =
                      [b \in DOMAIN @ |->
                          @[b] \o [t \in 1..Size(x, 0) |-> RowSlice(x, t, b)]]]
        /\ calls' = [calls EXCEPT ![i] = @ \o [t \in 1..Size(x, 0) |-> TimeSlice(x, t)]]
        /\ UNCHANGED eq

\* the attn instance is called, with the session's container or with None
CallAttn(i, x, mask, stateless) ==
    LET self == Reducers[i]
        r    == forward(self, x, mask, IF stateless THEN None ELSE incremental_state)
    IN  /\ self.method = "attn"
        /\ incremental_state' = IF stateless THEN incremental_state ELSE r.incremental_state
        /\ last' = [op |-> "forward", inst |-> i, training |-> mask # None,
                    stateless |-> stateless, raised |-> r.raised, ret |-> r.ret,
                    stored |-> FALSE, after_move |-> FALSE]
        /\ UNCHANGED <<hist, calls, eq>>

\* reorder_incremental_state(incremental_state, new_order) on instance i
Reorder(i, new_order) ==
    LET after == reorder_incremental_state(Reducers[i], incremental_state, new_order)
    IN  /\ incremental_state' = after
        /\ last' = [op |-> "reorder", inst |-> i,
                    fresh |-> ~HasBuffer(incremental_state, i),
                    moved |-> HasBuffer(incremental_state, i)
                              /\ Buffer(after, i) # Buffer(incremental_state, i)]
        /\ hist' = [hist EXCEPT ![i] = [j \in DOMAIN new_order |-> @[new_order[j]]]]
        /\ calls' = [calls EXCEPT ![i] =
                       [t \in DOMAIN @ |->
                           [sbc \in DOMAIN @[t] |->
                               @[t][<<sbc[1], new_order[sbc[2]], sbc[3]>>]]]]
        /\ UNCHANGED eq

\* the shared session
Next ==
    \/ \E i \in Inst, T \in 1..Remaining(MaxShared) :
          \E x \in Inputs(Dims, T), mask \in {None, TgtMask} : Call(i, x, mask)
    \/ \E i \in Inst : \E x \in Inputs(Dims, 1), mask \in {None, TgtMask},
                          stateless \in BOOLEAN : CallAttn(i, x, mask, stateless)
    \/ \E i \in Inst, new_order \in NewOrders(Dims.B) : Reorder(i, new_order)

Spec == Init /\ [][Next]_vars

\* the beam session: the max instance decodes one position per call and the
\* caller reorders the hypotheses between calls
InitBeam == Begin(BeamDims.B)

NextBeam ==
    \/ \E x \in Inputs(BeamDims, 1) : Remaining(MaxLen) >= 1 /\ Call(1, x, None)
    \/ \E new_order \in NewOrders(BeamDims.B) : Reorder(1, new_order)

SpecBeam == InitBeam /\ [][NextBeam]_vars

\* a session of calls only: nothing is reordered
NextPrepare ==
    \E i \in Inst, T \in 1..Remaining(MaxLen) :
       \E x \in Inputs(Dims, T), mask \in {None, TgtMask} : Call(i, x, mask)

SpecPrepare == Init /\ [][NextPrepare]_vars

----------------------------------------------------------------------------
(* Training against decoding: the sequence eq.x is given whole to one call *)
(* with a mask, and one position per call, mask = None, to calls that      *)
(* share a session which begins empty.                                     *)

\* S, B and C of the compared sequence
EqDims == [S |-> 2, B |-> 1, C |-> 1]

EqInputs(T) == Tensors(<<T, EqDims.S, EqDims.B, EqDims.C>>, Val)

\* x[k:k+1, :, :, :]
Position(x, k) == Unsqueeze(Select(x, k), 0)

InitEquiv ==
    /\ incremental_state = EmptyDict
    /\ last = [op |-> "init"]
    /\ hist = [i \in Inst |-> [b \in 1..EqDims.B |-> <<>>]]
    /\ calls = [i \in Inst |-> <<>>]
    /\ \E i \in {1, 2}, T \in 1..MaxT : \E x \in EqInputs(T) :
          eq = [phase |-> "compare", inst |-> i, x |-> x, train |-> None, outs |-> <<>>]

\* the training-mode call, outside a session or with a container of its own
Train(state) ==
    LET r == forward(Reducers[eq.inst], eq.x, TgtMask, state)
    IN  /\ eq.train = None
        /\ eq' = [eq EXCEPT !.train = [raised |-> r.raised, ret |-> r.ret]]
        /\ UNCHANGED <<incremental_state, last, hist, calls>>

\* the next decoding-mode call of the session
Decode ==
    LET k == Len(eq.outs)
        r == forward(Reducers[eq.inst], Position(eq.x, k), None, incremental_state)
    IN  /\ k < Size(eq.x, 0)
        /\ incremental_state' = r.incremental_state
        /\ eq' = [eq EXCEPT !.outs = Append(@, [raised |-> r.raised, ret |-> r.ret])]
        /\ UNCHANGED <<last, hist, calls>>

NextEquiv ==
    \/ \E state \in {None, EmptyDict} : Train(state)
    \/ Decode

SpecEquiv == InitEquiv /\ [][NextEquiv]_vars

----------------------------------------------------------------------------
(* Single calls: a Reducer of any strategy and axis is constructed and     *)
(* called once, outside a session or with a container that begins empty.   *)

\* the attn strategy's parameter, C x C with C = 1
AttnWeights == {<<<<w>>>> : w \in {-1, 0, 1}}

Constructed ==
    {Reducer(1, m, rs, None) : m \in {"max", "softmax"}, rs \in BOOLEAN}
        \cup {Reducer(1, "attn", rs, w) : rs \in BOOLEAN, w \in AttnWeights}

\* the shapes T x S x B x C of the inputs
FwdShapes == {<<1, 2, 2, 1>>, <<2, 2, 1, 1>>}

FwdInputs == UNION {Tensors(sh, Val) : sh \in FwdShapes}

\* the masks that go with x: a B x S padding mask for a source branch
Masks(self, x) ==
    IF self.reduce_src THEN {None} \cup Tensors(<<x.shape[3], x.shape[2]>>, BOOLEAN)
    ELSE {None, TgtMask}

InitFwd == Begin(Dims.B)

Forward(self, x, mask, state) ==
    LET r == forward(self, x, mask, state)
    IN  /\ last.op = "init"
        /\ last' = [op |-> "call", self |-> self, x |-> x, mask |-> mask,
                    state |-> state, raised |-> r.raised, ret |-> r.ret,
                    incremental_state |-> r.incremental_state]
        /\ UNCHANGED <<incremental_state, hist, calls, eq>>

NextFwd ==
    \E self \in Constructed, x \in FwdInputs, state \in {None, EmptyDict} :
       \E mask \in Masks(self, x) : Forward(self, x, mask, state)

SpecFwd == InitFwd /\ [][NextFwd]_vars

----------------------------------------------------------------------------
(* Properties of the comparison (SpecEquiv) *)

\* the maximum of x[0..i] at the place idx = (s, b, c)
PrefixMax(x, i, idx) == SetMax({x.data[<<t>> \o idx] : t \in 1..(i + 1)})

\* C1: max strategy, target branch: the training-mode call returns at every
\* position i exactly what the i-th of the sequential decoding-mode calls
\* returns, and that is the elementwise maximum of x[0..i].
C1_MaxTrainingEqualsDecoding ==
    (eq.phase = "compare" /\ eq.inst = 1 /\ eq.train # None) =>
        /\ eq.train.raised = ""
        /\ eq.train.ret.shape = eq.x.shape
        /\ \A i \in 0..(Size(eq.x, 0) - 1) : \A idx \in Indices(Tail(eq.x.shape)) :
              eq.train.ret.data[<<i + 1>> \o idx] = PrefixMax(eq.x, i, idx)
        /\ \A k \in 1..Len(eq.outs) :
              /\ eq.outs[k].raised = ""
              /\ eq.outs[k].ret = Select(eq.train.ret, k - 1)

\* C1's case: a sequence of three positions that falls after its first
\* position, compared at every position
C1_Witness ==
    /\ eq.phase = "compare" /\ eq.inst = 1 /\ eq.train # None
    /\ Size(eq.x, 0) = 3 /\ Len(eq.outs) = 3
    /\ \E idx \in Indices(Tail(eq.x.shape)) :
          eq.x.data[<<1>> \o idx] > eq.x.data[<<2>> \o idx]
          /\ eq.x.data[<<1>> \o idx] > eq.x.data[<<3>> \o idx]

\* the softmax-weighted sum of x[0..i] at the place idx = (s, b, c):
\* (sum of x[t] * exp(x[t])) / (sum of exp(x[t])), t over 0..i
RECURSIVE PrefixPoolNum(_, _, _)
PrefixPoolNum(x, i, idx) ==
    IF i < 0 THEN ZeroPoly
    ELSE PolyAdd(PrefixPoolNum(x, i - 1, idx),
                 Mono(x.data[<<i + 1>> \o idx], x.data[<<i + 1>> \o idx]))

RECURSIVE PrefixPoolDen(_, _, _)
PrefixPoolDen(x, i, idx) ==
    IF i < 0 THEN ZeroPoly
    ELSE PolyAdd(PrefixPoolDen(x, i - 1, idx), Mono(1, x.data[<<i + 1>> \o idx]))

PrefixPool(x, i, idx) ==
    [num |-> PrefixPoolNum(x, i, idx), den |-> PrefixPoolDen(x, i, idx)]

\* C2: softmax strategy, target branch, finite inputs: the training-mode
\* output at every position i, position 0 included, is the softmax-weighted
\* sum of the prefix x[0..i]; the buffer holds that prefix, in order, when
\* the i-th decoding-mode call pools it, and the call returns the same value.
C2_SoftmaxTrainingEqualsDecoding ==
    (eq.phase = "compare" /\ eq.inst = 2) =>
        /\ eq.train # None =>
              /\ eq.train.raised = ""
              /\ \A i \in 0..(Size(eq.x, 0) - 1) : \A idx \in Indices(Tail(eq.x.shape)) :
                    RealEq(eq.train.ret.data[<<i + 1>> \o idx], PrefixPool(eq.x, i, idx))
        /\ Len(eq.outs) > 0 =>
              Buffer(incremental_state, 2) = SliceTo(eq.x, Len(eq.outs))
        /\ \A k \in 1..Len(eq.outs) :
              /\ eq.outs[k].raised = ""
              /\ \A idx \in Indices(Tail(eq.x.shape)) :
                    /\ RealEq(eq.outs[k].ret.data[idx], PrefixPool(eq.x, k - 1, idx))
                    /\ eq.train # None =>
                          RealEq(eq.outs[k].ret.data[idx],
                                 eq.train.ret.data[<<k>> \o idx])

\* C2's case: a sequence of three positions with different elements,
\* compared at every position
C2_Witness ==
    /\ eq.phase = "compare" /\ eq.inst = 2 /\ eq.train # None
    /\ Size(eq.x, 0) = 3 /\ Len(eq.outs) = 3
    /\ \E idx \in Indices(Tail(eq.x.shape)) :
          eq.x.data[<<1>> \o idx] # eq.x.data[<<2>> \o idx]
          /\ eq.x.data[<<2>> \o idx] # eq.x.data[<<3>> \o idx]

----------------------------------------------------------------------------
(* Properties of single calls (SpecFwd) *)

Unmasked(x, mask, b) ==
    {s \in 1..x.shape[2] : mask = None \/ ~mask.data[<<b, s>>]}

\* C8: max strategy, source branch: the output at (t, b, c) is the maximum
\* of x over the source positions of row b whose mask entry is false, and
\* -inf when the mask leaves none in; with mask = None it is the maximum
\* over all source positions.
C8_MaxSourceMasking ==
    (last.op = "call" /\ last.self.method = "max" /\ last.self.reduce_src) =>
        /\ last.raised = ""
        /\ \A idx \in Indices(RemoveAt(last.x.shape, 2)) :
              last.ret.data[idx] =
                  IF Unmasked(last.x, last.mask, idx[2]) = {} THEN NegInf
                  ELSE SetMax({last.x.data[InsertAt(idx, 2, s)] :
                                  s \in Unmasked(last.x, last.mask, idx[2])})

\* C8's case: two batch rows, one with every source position masked, the
\* other with its larger element masked
C8_Witness ==
    /\ last.op = "call" /\ last.self.method = "max" /\ last.self.reduce_src
    /\ last.mask # None
    /\ last.x.shape[3] = 2
    /\ Unmasked(last.x, last.mask, 1) = {}
    /\ Unmasked(last.x, last.mask, 2) = {2}
    /\ last.x.data[<<1, 1, 2, 1>>] > last.x.data[<<1, 2, 2, 1>>]
    /\ last.ret.data[<<1, 1, 1>>] = NegInf

----------------------------------------------------------------------------
(* Properties of the shared session (Spec) *)

EntryOrNone(state, i) == IF HasEntry(state, i) THEN Entry(state, i) ELSE None

\* C4 as stated: reorder_incremental_state for an instance without a buffer
\* in the container leaves the container exactly as it was.
C4_ReorderWithoutBufferIsNoOp ==
    [][\A i \in Inst, new_order \in NewOrders(Dims.B) :
          (Reorder(i, new_order) /\ ~HasBuffer(incremental_state, i))
              => incremental_state' = incremental_state]_vars

\* C6: a call or a reorder on one instance leaves the entry of every other
\* instance of the container as it was, present or absent.
C6_OtherInstancesUntouched ==
    [][\A j \in Inst :
          j # last'.inst =>
              EntryOrNone(incremental_state', j) = EntryOrNone(incremental_state, j)]_vars

\* C6's case: both instances hold a buffer and the last call reordered one
\* of them
C6_Witness ==
    /\ last.op = "reorder" /\ last.moved
    /\ HasBuffer(incremental_state, 1)
    /\ HasBuffer(incremental_state, 2)

\* C9: every call of the attn strategy's target branch raises
\* NotImplementedError, whatever x, the mask and the incremental state, and
\* leaves the container as it was.
C9_AttnTargetAlwaysRaises ==
    [][(last'.op = "forward" /\ Reducers[last'.inst].method = "attn") =>
          /\ last'.raised = "NotImplementedError"
          /\ incremental_state' = incremental_state]_vars

\* C9's case: the attn instance was called with the session's container
\* while it holds another instance's buffer
C9_Witness ==
    /\ last.op = "forward" /\ Reducers[last.inst].method = "attn"
    /\ ~last.stateless
    /\ last.raised = "NotImplementedError"
    /\ HasBuffer(incremental_state, 1)

----------------------------------------------------------------------------
(* Properties of the beam session (SpecBeam) *)

\* C5: after a reorder with the permutation p the buffer's entry at batch
\* row j is the entry the buffer had at row p[j], at every time, source and
\* channel index, and no axis has changed its size.
C5_ReorderPermutesBatch ==
    [][\A p \in NewOrders(BeamDims.B) :
          (Reorder(1, p) /\ HasBuffer(incremental_state, 1)) =>
              /\ HasBuffer(incremental_state', 1)
              /\ Buffer(incremental_state', 1).shape = Buffer(incremental_state, 1).shape
              /\ \A idx \in Indices(Buffer(incremental_state, 1).shape) :
                    Buffer(incremental_state', 1).data[idx] =
                        Buffer(incremental_state, 1).data[[idx EXCEPT ![3] = p[idx[3]]]]]_vars

\* C5's case: a reorder has changed a buffer of two positions whose three
\* rows differ
C5_Witness ==
    /\ last.op = "reorder" /\ last.moved
    /\ Buffered(incremental_state, 1) = 2
    /\ \A a, b \in 1..BeamDims.B :
          a # b => \E t \in 1..2 :
              Buffer(incremental_state, 1).data[<<t, 1, a, 1>>]
                  # Buffer(incremental_state, 1).data[<<t, 1, b, 1>>]

\* C10: max strategy, decoding with reorders between the steps: the buffer
\* holds at every batch row the inputs, oldest first, of the hypothesis now
\* at that row, and a decoding call returns at row j the elementwise maximum
\* of that hypothesis' inputs, the call's own included.
C10_RowsFollowHypotheses ==
    /\ HasBuffer(incremental_state, 1) =>
          /\ \A b \in DOMAIN hist[1] : Len(hist[1][b]) = Buffered(incremental_state, 1)
          /\ Buffer(incremental_state, 1).shape[3] = Cardinality(DOMAIN hist[1])
          /\ \A idx \in Indices(Buffer(incremental_state, 1).shape) :
                Buffer(incremental_state, 1).data[idx] =
                    hist[1][idx[3]][idx[1]][<<idx[2], idx[4]>>]
    /\ (last.op = "forward" /\ last.inst = 1 /\ ~last.training) =>
          /\ last.raised = ""
          /\ \A idx \in Indices(last.ret.shape) :
                last.ret.data[idx] =
                    SetMax({hist[1][idx[2]][t][<<idx[1], idx[3]>>] :
                               t \in 1..Len(hist[1][idx[2]])})

\* C10's case: a decoding call right after a reorder that changed a buffer,
\* returning different maxima at two rows
C10_Witness ==
    /\ last.op = "forward" /\ last.inst = 1 /\ last.after_move
    /\ Buffered(incremental_state, 1) = 3
    /\ last.ret.data[<<1, 1, 1>>] # last.ret.data[<<1, 2, 1>>]

----------------------------------------------------------------------------
(* Properties of a session of calls only (SpecPrepare) *)

\* C7: in a session that began without a buffer, after any sequence of
\* calls the buffer is the concatenation, along the time axis and in call
\* order, of the inputs given to _prepare_repr; every call of _prepare_repr
\* returns the value it stored; so with one position per call the buffer's
\* time length is the number of calls.
C7_BufferIsConcatenation ==
    /\ \A i \in {1, 2} :
          /\ Buffered(incremental_state, i) = Len(calls[i])
          /\ HasBuffer(incremental_state, i) =>
                \A idx \in Indices(Buffer(incremental_state, i).shape) :
                    Buffer(incremental_state, i).data[idx] = calls[i][idx[1]][Tail(idx)]
    /\ last.op = "forward" => last.stored

\* C7's case: three positions buffered by the calls, their inputs all different
C7_Witness ==
    /\ last.op = "forward" /\ last.inst = 1
    /\ Len(calls[1]) = 3
    /\ Buffered(incremental_state, 1) = 3
    /\ calls[1][1] # calls[1][2] /\ calls[1][2] # calls[1][3] /\ calls[1][1] # calls[1][3]

=============================================================================
